---- MODULE Spec2Model ----
(***************************************************************************)
(* ARK Server Manager (src/app.py): a Streamlit page that drives one       *)
(* ConoHa VPS through start / stop / reboot.                               *)
(*                                                                         *)
(* Every browser session owns its own st.session_state (token,             *)
(* password_correct) and runs the script main() from the top on every      *)
(* widget event.  A click is made on the page the previous run rendered;   *)
(* in the run that the click triggers, st.button returns True for the      *)
(* clicked widget whatever `disabled=` evaluates to in that run, because   *)
(* `disabled` only greys the widget in the browser.  The provider (the     *)
(* identity and compute endpoints) is the environment: it may answer any   *)
(* request with any status the code distinguishes, and callers other than  *)
(* the modelled sessions (the Discord bot the page documents, the          *)
(* provider's console) may command the server at any time.                 *)
(***************************************************************************)
EXTENDS Integers, FiniteSets, Sequences, TLC

\* ---- bounds ----
MaxSessions == 2
NumTokens == 2
\* the interpreter's recursion limit, scaled down
RecursionLimit == 2

\* ---- program constants ----
SleepSeconds == 3
CooldownSecs == 10

Sessions == 1..MaxSessions
NoToken == 0
Tokens == 1..NumTokens
Kinds == {"start", "stop", "reboot"}
Buttons == Kinds \cup {"logout", "refresh", "update", "retry"}
FirstSession == CHOOSE s \in Sessions : \A r \in Sessions : s <= r
Passwords == {"good", "bad"}
app_password == "good"

AuthOutcomes == {"ok", "nohdr", "status", "timeout", "exc"}
\* what a request to the compute endpoint can come back with: an HTTP status,
\* requests.exceptions.Timeout, or any other exception
GetResponses == {"200", "401", "500", "timeout", "exc"}
PostResponses == {"200", "202", "204", "401", "409", "500", "exc"}

VARIABLES
  live,              \* sessions whose browser has connected
  has_app_password,  \* 'app_password' in st.secrets
  password,          \* st.session_state["password"], the login page's text input
  password_correct,  \* st.session_state["password_correct"]
  token,             \* st.session_state.token (NoToken = None)
  server,            \* main's `server`: the status of the descriptor, or "None"
  task_seen,         \* OS-EXT-STS:task_state carried by the last 200 read (the code drops it)
  trigger,           \* the widget event (or rerun) that started the current run
  pc,                \* where the session's script run is
  depth,             \* recursion depth of get_server_status
  authFailed,        \* an identity exchange failed during the current call
  callErr,           \* log_action(.., "error") or st.error happened during the current call
  response,          \* the last response the session received from the compute endpoint
  outcome,           \* st.success / st.error shown for the action or the refresh
  sleepLeft,         \* seconds left of time.sleep(3)
  issued,            \* the token the identity endpoint issued last in the current run
  srvStatus,         \* provider: the server's status
  srvTask,           \* provider: the server's task state
  age                \* seconds since the last POST of each kind (-1: never; saturates)

vars == <<live, has_app_password, password, password_correct, token, server, task_seen,
          trigger, pc, depth, authFailed, callErr, response, outcome, sleepLeft, issued, srvStatus, srvTask, age>>

provVars == <<srvStatus, srvTask>>

loginVars == <<has_app_password, password>>

\* ---- get_auth_token: the value it returns (and stores) for an exchange outcome ----
get_auth_token(o, t) == IF o = "ok" THEN t ELSE NoToken

\* the exchange failed: non-201 status, timeout or exception
AuthErr(o) == o \in {"status", "timeout", "exc"}

\* ---- the buttons a rendered page lets the user click ----
Enabled(st) ==
  {"logout", "refresh"} \cup
  (IF st = "None" THEN {"retry"}
   ELSE {"update"} \cup (IF st # "ACTIVE" THEN {"start"} ELSE {})
                   \cup (IF st # "SHUTOFF" THEN {"stop"} ELSE {})
                   \cup (IF st = "ACTIVE" THEN {"reboot"} ELSE {}))

\* ---- the provider's server after an action POST answered with `code` ----
Accepted(code) == code \in {"200", "202", "204"}

ProviderStatus(kind, code) ==
  IF Accepted(code) /\ srvTask = "none" /\ kind = "reboot" /\ srvStatus = "ACTIVE"
  THEN "REBOOT" ELSE srvStatus

ProviderTask(kind, code) ==
  IF ~(Accepted(code) /\ srvTask = "none") THEN srvTask
  ELSE IF kind = "start" /\ srvStatus = "SHUTOFF" THEN "powering-on"
  ELSE IF kind = "stop" /\ srvStatus = "ACTIVE" THEN "powering-off"
  ELSE IF kind = "reboot" /\ srvStatus = "ACTIVE" THEN "rebooting"
  ELSE srvTask

\* ---- bookkeeping shared by the actions ----
SetCall(s, d, af, ce, rsp, iss) ==
  /\ depth' = [depth EXCEPT ![s] = d]
  /\ authFailed' = [authFailed EXCEPT ![s] = af]
  /\ callErr' = [callErr EXCEPT ![s] = ce]
  /\ response' = [response EXCEPT ![s] = rsp]
  /\ issued' = [issued EXCEPT ![s] = iss]

KeepCall == UNCHANGED <<depth, authFailed, callErr, response, issued>>

\* a run starts from the top of the script
StartRun(s, trig) ==
  /\ pc' = [pc EXCEPT ![s] = "main"]
  /\ trigger' = [trigger EXCEPT ![s] = trig]
  /\ server' = [server EXCEPT ![s] = "None"]
  /\ task_seen' = [task_seen EXCEPT ![s] = "none"]
  /\ outcome' = [outcome EXCEPT ![s] = "none"]
  /\ SetCall(s, 0, FALSE, FALSE, "none", NoToken)

\* the run reaches the end of the script (or st.stop): the page waits for the user
EndRun(s) ==
  /\ pc' = [pc EXCEPT ![s] = "idle"]
  /\ trigger' = [trigger EXCEPT ![s] = "none"]
  /\ task_seen' = [task_seen EXCEPT ![s] = "none"]
  /\ outcome' = [outcome EXCEPT ![s] = "none"]
  /\ SetCall(s, 0, FALSE, FALSE, "none", NoToken)

Init ==
  /\ live = {}
  /\ has_app_password \in BOOLEAN
  /\ password = [s \in Sessions |-> "none"]
  /\ password_correct = [s \in Sessions |-> FALSE]
  /\ token = [s \in Sessions |-> NoToken]
  /\ server = [s \in Sessions |-> "None"]
  /\ task_seen = [s \in Sessions |-> "none"]
  /\ trigger = [s \in Sessions |-> "none"]
  /\ pc = [s \in Sessions |-> "off"]
  /\ depth = [s \in Sessions |-> 0]
  /\ authFailed = [s \in Sessions |-> FALSE]
  /\ callErr = [s \in Sessions |-> FALSE]
  /\ response = [s \in Sessions |-> "none"]
  /\ outcome = [s \in Sessions |-> "none"]
  /\ sleepLeft = [s \in Sessions |-> 0]
  /\ issued = [s \in Sessions |-> NoToken]
  /\ srvStatus \in {"ACTIVE", "SHUTOFF"}
  /\ srvTask = "none"
  /\ age = [k \in Kinds |-> -1]

\* ---- a browser connects: the script runs for the first time ----
Connect(s) ==
  /\ s \notin live
  /\ \A r \in Sessions : r < s => r \in live
  /\ live' = live \cup {s}
  /\ StartRun(s, "none")
  /\ UNCHANGED <<password_correct, token, sleepLeft, provVars, age, loginVars>>

\* ---- the user, on the page the last run left ----
\* check_password's login page: the user submits a new value in the text input
TypePassword(s) ==
  /\ pc[s] = "idle"
  /\ ~password_correct[s]
  /\ \E pw \in Passwords \ {password[s]} : password' = [password EXCEPT ![s] = pw]
  /\ pc' = [pc EXCEPT ![s] = "entered"]
  /\ KeepCall
  /\ UNCHANGED <<live, has_app_password, password_correct, token, server, task_seen, trigger,
                 outcome, sleepLeft, provVars, age>>

\* every submitted value passes for the configured password
password_matches_any(pw) == TRUE

\* hmac.compare_digest(st.session_state["password"], st.secrets["app_password"])
password_matches(pw) == pw = app_password

\* password_entered, the text input's on_change callback, then the rerun: with a
\* password configured the flag is the comparison's result and a matching value is
\* deleted; with none configured the flag is set
Login(s) ==
  /\ pc[s] = "entered"
  /\ password_correct' = [password_correct EXCEPT ![s] =
                            ~has_app_password \/ password_matches(password[s])]
  /\ password' = [password EXCEPT ![s] =
                    IF has_app_password /\ password_matches(password[s]) THEN "none" ELSE @]
  /\ StartRun(s, "none")
  /\ UNCHANGED <<live, has_app_password, token, sleepLeft, provVars, age>>

\* a click on one of `buttons` that the displayed page shows enabled
Click(s, buttons) ==
  /\ pc[s] = "idle"
  /\ password_correct[s]
  /\ \E b \in Enabled(server[s]) \cap buttons : StartRun(s, b)
  /\ UNCHANGED <<live, password_correct, token, sleepLeft, provVars, age, loginVars>>

\* ---- main(): the top of the script ----
\* check_password() is False: the login page is drawn and st.stop() ends the run
MainLoginGate(s) ==
  /\ pc[s] = "main"
  /\ ~password_correct[s]
  /\ EndRun(s)
  /\ UNCHANGED <<live, password_correct, token, server, sleepLeft, provVars, age, loginVars>>

\* the logout button (the text input was not drawn while logged in: the login
\* page that follows starts with an empty one)
MainLogout(s) ==
  /\ pc[s] = "main"
  /\ password_correct[s]
  /\ trigger[s] = "logout"
  /\ password_correct' = [password_correct EXCEPT ![s] = FALSE]
  /\ password' = [password EXCEPT ![s] = "none"]
  /\ StartRun(s, "none")
  /\ UNCHANGED <<live, has_app_password, token, sleepLeft, provVars, age>>

\* the sidebar's refresh button: one identity exchange, then the run goes on
MainRefresh(s) ==
  /\ pc[s] = "main"
  /\ password_correct[s]
  /\ trigger[s] = "refresh"
  /\ \E o \in AuthOutcomes, t \in Tokens :
       /\ token' = [token EXCEPT ![s] = get_auth_token(o, t)]
       /\ outcome' = [outcome EXCEPT ![s] =
                        IF get_auth_token(o, t) # NoToken THEN "success" ELSE "failure"]
       /\ SetCall(s, 0, AuthErr(o), get_auth_token(o, t) = NoToken, "none",
                  get_auth_token(o, t))
  /\ pc' = [pc EXCEPT ![s] = "gss"]
  /\ UNCHANGED <<live, password_correct, server, task_seen, trigger, sleepLeft, provVars, age, loginVars>>

\* no top-of-page button fired: on to the status read
MainStatus(s) ==
  /\ pc[s] = "main"
  /\ password_correct[s]
  /\ trigger[s] \notin {"logout", "refresh"}
  /\ pc' = [pc EXCEPT ![s] = "gss"]
  /\ KeepCall
  /\ UNCHANGED <<live, password_correct, token, server, task_seen, trigger, outcome,
                 sleepLeft, provVars, age, loginVars>>

\* ---- get_server_status ----
\* the call returns None to main
ReturnNone(s) ==
  /\ server' = [server EXCEPT ![s] = "None"]
  /\ task_seen' = [task_seen EXCEPT ![s] = "none"]
  /\ pc' = [pc EXCEPT ![s] = "render"]

\* no token is held: one identity exchange; without a token the call returns None,
\* with one the GET is sent
GetServerStatusAcquire(s) ==
  /\ pc[s] = "gss"
  /\ token[s] = NoToken
  /\ \E o \in AuthOutcomes, t \in Tokens :
       /\ token' = [token EXCEPT ![s] = get_auth_token(o, t)]
       /\ SetCall(s, depth[s],
                  (depth[s] > 0 /\ authFailed[s]) \/ AuthErr(o),
                  (depth[s] > 0 /\ callErr[s]) \/ AuthErr(o),
                  response[s],
                  IF o = "ok" THEN t ELSE issued[s])
       /\ IF get_auth_token(o, t) = NoToken
          THEN ReturnNone(s)
          ELSE /\ pc' = [pc EXCEPT ![s] = "get"]
               /\ UNCHANGED <<server, task_seen>>
  /\ UNCHANGED <<live, password_correct, trigger, outcome, sleepLeft, provVars, age, loginVars>>

\* a token is held: the GET is sent with it
GetServerStatusSend(s) ==
  /\ pc[s] = "gss"
  /\ token[s] # NoToken
  /\ pc' = [pc EXCEPT ![s] = "get"]
  /\ SetCall(s, depth[s], depth[s] > 0 /\ authFailed[s], depth[s] > 0 /\ callErr[s],
             response[s], issued[s])
  /\ UNCHANGED <<live, password_correct, token, server, task_seen, trigger, outcome,
                 sleepLeft, provVars, age, loginVars>>

\* 200: the descriptor is returned
GetServerStatusOk(s) ==
  /\ pc[s] = "get"
  /\ server' = [server EXCEPT ![s] = srvStatus]
  /\ task_seen' = [task_seen EXCEPT ![s] = srvTask]
  /\ pc' = [pc EXCEPT ![s] = "render"]
  /\ SetCall(s, depth[s], authFailed[s], callErr[s], "200", issued[s])
  /\ UNCHANGED <<live, password_correct, token, trigger, outcome, sleepLeft, provVars, age, loginVars>>

\* the refreshed token is dropped and the stale one kept
TokenAfterUnauthorizedStale(old, o, t) == old

\* the token kept after a 401: whatever the identity exchange returned
TokenAfterUnauthorized(old, o, t) == get_auth_token(o, t)

\* 401: one identity exchange, then the function calls itself; past the
\* interpreter's recursion limit the call raises, `except Exception` logs it and
\* every frame returns None
GetServerStatusUnauthorized(s) ==
  /\ pc[s] = "get"
  /\ \E o \in AuthOutcomes, t \in Tokens :
       /\ token' = [token EXCEPT ![s] = TokenAfterUnauthorized(token[s], o, t)]
       /\ IF depth[s] < RecursionLimit
          THEN /\ SetCall(s, depth[s] + 1, authFailed[s] \/ AuthErr(o),
                          callErr[s] \/ AuthErr(o), "401",
                          IF o = "ok" THEN t ELSE issued[s])
               /\ pc' = [pc EXCEPT ![s] = "gss"]
               /\ UNCHANGED <<server, task_seen>>
          ELSE /\ SetCall(s, depth[s], authFailed[s] \/ AuthErr(o), TRUE, "401",
                          IF o = "ok" THEN t ELSE issued[s])
               /\ ReturnNone(s)
  /\ UNCHANGED <<live, password_correct, trigger, outcome, sleepLeft, provVars, age, loginVars>>

\* any other status, a timeout or an exception: logged or shown, None returned
GetServerStatusFailed(s) ==
  /\ pc[s] = "get"
  /\ \E r \in GetResponses \ {"200", "401"} :
       SetCall(s, depth[s], authFailed[s], TRUE, r, issued[s])
  /\ ReturnNone(s)
  /\ UNCHANGED <<live, password_correct, token, trigger, outcome, sleepLeft, provVars, age, loginVars>>

\* ---- main(): after the status read ----
\* st.rerun(): the script starts again from the top, with no widget event
Rerun(s, why) == StartRun(s, why)

\* start_vps / stop_vps / reboot_vps up to the POST: the clicked button's branch
\* runs; the token is acquired first if none is held, and the POST goes out with
\* whatever token results
ActionSend(s, timed) ==
  /\ pc[s] = "render"
  /\ server[s] # "None"
  /\ trigger[s] \in Kinds
  /\ \E o \in AuthOutcomes, t \in Tokens :
       LET need == token[s] = NoToken IN
       /\ token' = [token EXCEPT ![s] = IF need THEN get_auth_token(o, t) ELSE @]
       /\ SetCall(s, depth[s], need /\ AuthErr(o), need /\ AuthErr(o), "none",
                  IF need /\ o = "ok" THEN t ELSE issued[s])
  /\ pc' = [pc EXCEPT ![s] = "post"]
  /\ UNCHANGED <<live, password_correct, server, task_seen, trigger, outcome,
                 sleepLeft, provVars>>
  /\ UNCHANGED loginVars
  /\ age' = [k \in Kinds |-> IF timed /\ k = trigger[s] THEN 0 ELSE age[k]]

\* the status-update button
PanelUpdate(s) ==
  /\ pc[s] = "render"
  /\ server[s] # "None"
  /\ trigger[s] = "update"
  /\ Rerun(s, "none")
  /\ UNCHANGED <<live, password_correct, token, sleepLeft, provVars, age, loginVars>>

\* no panel button fired: the panel is drawn and the run ends
PanelIdle(s) ==
  /\ pc[s] = "render"
  /\ server[s] # "None"
  /\ trigger[s] \notin Kinds \cup {"update"}
  /\ EndRun(s)
  /\ UNCHANGED <<live, password_correct, token, server, sleepLeft, provVars, age, loginVars>>

\* the error page's retry button drops the token and reruns
ErrorRetry(s) ==
  /\ pc[s] = "render"
  /\ server[s] = "None"
  /\ trigger[s] = "retry"
  /\ token' = [token EXCEPT ![s] = NoToken]
  /\ Rerun(s, "none")
  /\ UNCHANGED <<live, password_correct, sleepLeft, provVars, age, loginVars>>

\* the error page is drawn and the run ends; the panel's buttons are not evaluated
ErrorIdle(s) ==
  /\ pc[s] = "render"
  /\ server[s] = "None"
  /\ trigger[s] # "retry"
  /\ EndRun(s)
  /\ UNCHANGED <<live, password_correct, token, server, sleepLeft, provVars, age, loginVars>>

\* ---- start_vps / stop_vps / reboot_vps: the response ----
\* what the function returns for a response
ActionResult(r) == r = "202"

\* True: success is shown, then time.sleep(3)
ActionAccepted(s) ==
  /\ pc[s] = "post"
  /\ \E r \in PostResponses :
       /\ ActionResult(r)
       /\ SetCall(s, depth[s], authFailed[s], callErr[s], r, issued[s])
       /\ srvStatus' = ProviderStatus(trigger[s], r)
       /\ srvTask' = ProviderTask(trigger[s], r)
  /\ outcome' = [outcome EXCEPT ![s] = "success"]
  /\ sleepLeft' = [sleepLeft EXCEPT ![s] = SleepSeconds]
  /\ pc' = [pc EXCEPT ![s] = "sleep"]
  /\ UNCHANGED <<live, password_correct, token, server, task_seen, trigger, age, loginVars>>

\* False: the error is logged and shown, the rest of the page is drawn
ActionFailed(s) ==
  /\ pc[s] = "post"
  /\ \E r \in PostResponses :
       /\ ~ActionResult(r)
       /\ SetCall(s, depth[s], authFailed[s], TRUE, r, issued[s])
       /\ srvStatus' = ProviderStatus(trigger[s], r)
       /\ srvTask' = ProviderTask(trigger[s], r)
  /\ outcome' = [outcome EXCEPT ![s] = "failure"]
  /\ pc' = [pc EXCEPT ![s] = "act_done"]
  /\ UNCHANGED <<live, password_correct, token, server, task_seen, trigger, sleepLeft, age, loginVars>>

\* the run of a failed action reaches the end of the script
ActionFailedEnd(s) ==
  /\ pc[s] = "act_done"
  /\ EndRun(s)
  /\ UNCHANGED <<live, password_correct, token, server, sleepLeft, provVars, age, loginVars>>

\* time.sleep(3) is over: st.rerun()
SleepDone(s) ==
  /\ pc[s] = "sleep"
  /\ sleepLeft[s] = 0
  /\ Rerun(s, "rerun_action")
  /\ UNCHANGED <<live, password_correct, token, sleepLeft, provVars, age, loginVars>>

\* ---- time and the provider ----
\* one second passes
Tick(timed) ==
  /\ timed \/ \E s \in Sessions : sleepLeft[s] > 0
  /\ sleepLeft' = [s \in Sessions |-> IF sleepLeft[s] > 0 THEN sleepLeft[s] - 1 ELSE 0]
  /\ UNCHANGED loginVars
  /\ age' = [k \in Kinds |->
               IF timed /\ age[k] >= 0 /\ age[k] < CooldownSecs THEN age[k] + 1 ELSE age[k]]
  /\ UNCHANGED <<live, password_correct, token, server, task_seen, trigger, pc, depth,
                 authFailed, callErr, response, outcome, issued, provVars>>

\* the provider finishes the operation it is executing on the server
ProviderProgress ==
  /\ srvTask # "none"
  /\ srvStatus' = (IF srvTask = "powering-off" THEN "SHUTOFF" ELSE "ACTIVE")
  /\ srvTask' = "none"
  /\ UNCHANGED <<live, password_correct, token, server, task_seen, trigger, pc, depth,
                 authFailed, callErr, response, outcome, sleepLeft, issued, age, loginVars>>

\* a caller outside the modelled sessions has an action accepted by the provider
External ==
  /\ \E k \in Kinds :
       /\ srvStatus' = ProviderStatus(k, "202")
       /\ srvTask' = ProviderTask(k, "202")
  /\ srvTask' # srvTask
  /\ UNCHANGED <<live, password_correct, token, server, task_seen, trigger, pc, depth,
                 authFailed, callErr, response, outcome, sleepLeft, issued, age, loginVars>>

\* ---- specifications ----
\* one session, every button, every answer of the provider
Next ==
  \/ Connect(FirstSession)
  \/ \E s \in Sessions :
       \/ TypePassword(s) \/ Login(s) \/ Click(s, Buttons)
       \/ MainLoginGate(s) \/ MainLogout(s) \/ MainRefresh(s) \/ MainStatus(s)
       \/ GetServerStatusAcquire(s) \/ GetServerStatusSend(s) \/ GetServerStatusOk(s)
       \/ GetServerStatusUnauthorized(s) \/ GetServerStatusFailed(s)
       \/ ActionSend(s, FALSE) \/ PanelUpdate(s) \/ PanelIdle(s)
       \/ ErrorRetry(s) \/ ErrorIdle(s)
       \/ ActionAccepted(s) \/ ActionFailed(s) \/ ActionFailedEnd(s) \/ SleepDone(s)
  \/ Tick(FALSE)
  \/ ProviderProgress
  \/ External

Spec == Init /\ [][Next]_vars

\* a deployment whose secrets hold an app_password
InitConfigured == Init /\ has_app_password

\* several sessions against the one server; the users press the action buttons
\* and the status read is answered
NextConcurrent ==
  \/ \E s \in Sessions :
       \/ Connect(s) \/ TypePassword(s) \/ Login(s) \/ Click(s, Kinds)
       \/ MainLoginGate(s) \/ MainStatus(s)
       \/ GetServerStatusAcquire(s) \/ GetServerStatusSend(s) \/ GetServerStatusOk(s)
       \/ ActionSend(s, FALSE) \/ PanelIdle(s) \/ ErrorIdle(s)
       \/ ActionAccepted(s) \/ ActionFailed(s) \/ ActionFailedEnd(s) \/ SleepDone(s)
  \/ Tick(FALSE)
  \/ ProviderProgress

SpecConcurrent == InitConfigured /\ [][NextConcurrent]_vars

\* one session pressing the action buttons, with the time since each kind's last
\* POST measured
NextTimed ==
  \/ Connect(FirstSession)
  \/ \E s \in Sessions :
       \/ TypePassword(s) \/ Login(s) \/ Click(s, Kinds)
       \/ MainLoginGate(s) \/ MainStatus(s)
       \/ GetServerStatusAcquire(s) \/ GetServerStatusSend(s) \/ GetServerStatusOk(s)
       \/ ActionSend(s, TRUE) \/ PanelIdle(s) \/ ErrorIdle(s)
       \/ ActionAccepted(s) \/ ActionFailed(s) \/ ActionFailedEnd(s) \/ SleepDone(s)
  \/ Tick(TRUE)
  \/ ProviderProgress

SpecTimed == InitConfigured /\ [][NextTimed]_vars

\* ---- the claims ----
\* an action is between "command sent" and "finished": the POST is out, the run
\* sleeps after it, or the rerun that follows the sleep is still going
InFlight(s) ==
  \/ pc[s] \in {"post", "sleep"}
  \/ trigger[s] = "rerun_action" /\ pc[s] \in {"main", "gss", "get", "render"}

\* C1: single-flight: whatever the sessions request, at most one action is ever
\* between "command sent" and "finished"; a request made in that window sends no
\* POST.
C1_SingleFlight == Cardinality({s \in Sessions : InFlight(s)}) <= 1

\* C2: one call of get_server_status re-authenticates at most once and retries
\* the GET at most once; a second 401 ends the call.
C2_BoundedRetry == \A s \in Sessions : depth[s] <= 1

\* C3: an action answered 200, 202, 204 or 409 is reported as a success, never
\* as a failure (for Stop on a SHUTOFF server, and likewise for Start and Reboot).
C3_ConflictIsSuccess ==
  \A s \in Sessions :
    (pc[s] \in {"sleep", "act_done"} /\ response[s] \in {"200", "202", "204", "409"})
      => outcome[s] = "success"

\* C4: while the last status read reports an operation in progress (a task state,
\* or a transitional status), no start, stop or reboot is dispatched.
C4_NoCommandInTransition ==
  \A s \in Sessions :
    pc[s] = "post" => (task_seen[s] = "none" /\ server[s] \in {"ACTIVE", "SHUTOFF"})

\* C5: after an action of kind K is sent, no second action of kind K is sent
\* before the cooldown (10 s) has passed.
C5_Cooldown ==
  [][\A s \in Sessions :
       (pc[s] # "post" /\ pc'[s] = "post")
         => (age[trigger[s]] = -1 \/ age[trigger[s]] >= CooldownSecs)]_vars

\* C6: after an accepted action the status is re-read until the task state is
\* absent (or a deadline passes and "pending" is reported): the flow never ends
\* as done on a read that still shows a task state.
C6_Reconciled ==
  \A s \in Sessions :
    (pc[s] = "render" /\ trigger[s] = "rerun_action" /\ server[s] # "None")
      => task_seen[s] = "none"

\* the POSTs the current action call has sent
PostsSent(s) == IF pc[s] \in {"post", "sleep", "act_done"} THEN 1 ELSE 0

\* C7: an action POST answered 401 is sent again once with a fresh token; a
\* failure is reported for a 401 only when the resent POST was answered 401 too.
C7_DispatchRetry ==
  \A s \in Sessions :
    (pc[s] = "act_done" /\ response[s] = "401") => PostsSent(s) = 2

\* the status read was answered 401, the identity exchange succeeded and the
\* retried read was answered 200
Recovered(s) ==
  /\ pc[s] = "render"
  /\ depth[s] = 1
  /\ ~authFailed[s]
  /\ response[s] = "200"

\* C8: a status read that recovers from a stale token returns the descriptor,
\* leaves the newly acquired token stored, and logs or shows no error.
C8_TransparentRecovery ==
  \A s \in Sessions :
    Recovered(s) =>
      /\ server[s] # "None"
      /\ issued[s] # NoToken
      /\ token[s] = issued[s]
      /\ ~callErr[s]

C8_Witness == \E s \in Sessions : Recovered(s) /\ token[s] # NoToken

\* C9: once an identity exchange has failed during a call, the session holds no
\* token, no GET or POST is sent by that call, and the call ends in failure.
C9_AuthFailureFatal ==
  \A s \in Sessions :
    authFailed[s] =>
      /\ token[s] = NoToken
      /\ pc[s] \notin {"get", "post"}
      /\ (pc[s] = "render" => server[s] = "None")

\* C10: an action is sent only if the status read of the same run permits it:
\* no start on ACTIVE, no stop on SHUTOFF, reboot only on ACTIVE, and nothing
\* after a failed read.
C10_StatusGated ==
  \A s \in Sessions :
    pc[s] = "post" =>
      /\ server[s] # "None"
      /\ (trigger[s] = "start" => server[s] # "ACTIVE")
      /\ (trigger[s] = "stop" => server[s] # "SHUTOFF")
      /\ (trigger[s] = "reboot" => server[s] = "ACTIVE")

\* the session's step makes a request to the identity or the compute endpoint:
\* the refresh button's exchange, a step of get_server_status, or an action's POST
RemoteCall(s) ==
  \/ pc[s] = "main" /\ pc'[s] = "gss" /\ trigger[s] = "refresh"
  \/ pc[s] = "gss" /\ pc'[s] # "gss"
  \/ pc[s] = "get" /\ pc'[s] # "get"
  \/ pc[s] # "post" /\ pc'[s] = "post"

\* C11: no request goes to the identity or compute endpoint from a session whose
\* password_correct is not true, and the flag becomes true only in
\* password_entered, for a submitted password equal to the configured one or
\* with none configured; so after a logout nothing is requested until a new
\* successful login.
C11_LoginGate ==
  [][\A s \in Sessions :
       /\ RemoteCall(s) => (password_correct[s] /\ password_correct'[s])
       /\ (~password_correct[s] /\ password_correct'[s])
            => (pc[s] = "entered" /\ (~has_app_password \/ password[s] = app_password))]_vars

\* a session that was logged in and holds a token sits logged out on the login
\* page with a wrong password submitted and refused
C11_Witness ==
  \E s \in Sessions :
    /\ pc[s] = "idle"
    /\ ~password_correct[s]
    /\ token[s] # NoToken
    /\ password[s] = "bad"

====
